---- MODULE Spec2Model ----
(***************************************************************************)
(* Verification model of the Akhand Jyoti archive scraper.                 *)
(*                                                                         *)
(* Modelled source: "src/akahnd jyoti/gpu_optimised.py" (the concurrent    *)
(* scraper: RequestManager, the thread-pool text and scan jobs, main) and  *)
(* the main loop it shares with "src/akahnd jyoti/final_scrapping.py".     *)
(*                                                                         *)
(* Four specifications over one set of variables:                          *)
(*   SpecReq   RequestManager.make_request, called by concurrent workers   *)
(*             that share the one module-level request_manager;            *)
(*   SpecCall  the same actions, called by one thread after the other      *)
(*             (as main does between jobs), the responses and sleeps of    *)
(*             each call recorded;                                         *)
(*   SpecText  one text job (download_text_content and its page workers);  *)
(*   SpecMain  main(): the months of a year, text job, scan fallback, the  *)
(*             metadata write, an interruption of the process and a rerun. *)
(*                                                                         *)
(* Time is counted in ticks of MIN_DELAY (half a second). The program reads *)
(* time.time() only to take differences with a stored time stamp, so each  *)
(* time stamp is kept as its age, time.time() minus the stamp, which Tick  *)
(* advances and which is capped where the program no longer tells two ages *)
(* apart; a sleep is kept as the time it still has to run.                 *)
(***************************************************************************)
EXTENDS Integers, Sequences, FiniteSets, TLC

VARIABLES
    rm,       \* the fields of the shared RequestManager instance
    wk,       \* per worker thread: its position inside make_request and its locals
    obs,      \* observations of the requests sent (history, not program state)
    job,      \* the running text or scan job: its thread pool and its locals
    disk,     \* the files under OUTPUT_DIR
    mn,       \* main(): its position and its locals
    site,     \* the web site: the page bodies it may serve
    ev,       \* one call of a page-level function: its arguments and its result
    sq        \* the sequential script (final_scrapping.py): its request counter

reqVars == <<rm, wk, obs>>

progVars == <<job, disk, mn, site, ev, sq>>

vars == <<rm, wk, obs, job, disk, mn, site, ev, sq>>

-----------------------------------------------------------------------------
(* Program constants (gpu_optimised.py lines 38-45).                       *)

\* MIN_DELAY = 0.5 s: the tick of the clock
MIN_DELAY == 1
\* one second, in ticks of MIN_DELAY
Second == 2
MAX_RETRIES == 3
\* int(response.headers.get('Retry-After', 30)): the default, in seconds
RETRY_AFTER_DEFAULT == 30

(* Bounds of the model.                                                    *)

\* SESSION_DURATION = 300 s and SESSION_REQUESTS = 100 in the source, scaled
\* down so that both rotation conditions occur within a few calls.
SESSION_DURATION == 3
SESSION_REQUESTS == 1
\* worker threads sharing request_manager
NumWorkers == 2
\* make_request calls started, over all workers
MaxCalls == 2
\* largest integer Retry-After header value, in seconds
MaxRetryAfter == 2

Workers == 1..NumWorkers

-----------------------------------------------------------------------------
(* Pure helpers.                                                           *)

Min(a, b) == IF a < b THEN a ELSE b

RECURSIVE Pow2(_)
Pow2(n) == IF n = 0 THEN 1 ELSE 2 * Pow2(n - 1)

BackoffLinear(attempt) == (attempt + 1) * Second

\* time.sleep(2 ** attempt), in ticks
Backoff(attempt) == Pow2(attempt) * Second

NoHeader == [kind |-> "absent", n |-> 0]

\* the Retry-After headers a 429 response may carry
Headers ==
    {NoHeader, [kind |-> "date", n |-> 0]}
        \cup {[kind |-> "int", n |-> k] : k \in 0..MaxRetryAfter}

\* what the server, or the transport, answers to one attempt
Responses ==
    {[status |-> s, hdr |-> NoHeader] : s \in {"200", "500", "error"}}
        \cup {[status |-> "429", hdr |-> h] : h \in Headers}

\* int(response.headers.get('Retry-After', 30)) raises ValueError on anything
\* that is not an integer literal; the enclosing except then handles the
\* attempt as a transport error.
RetryAfterParses(hdr) == hdr.kind # "date"

RetryAfterSeconds(hdr) == IF hdr.kind = "absent" THEN RETRY_AFTER_DEFAULT ELSE hdr.n

SleepAfterBackoffOnly(resp, attempt) == Backoff(attempt)

\* the sleep that follows a failed attempt, in ticks (lines 114-124)
SleepAfter(resp, attempt) ==
    IF resp.status = "429" /\ RetryAfterParses(resp.hdr)
    THEN RetryAfterSeconds(resp.hdr) * Second
    ELSE Backoff(attempt)

\* lines 81-83: MIN_DELAY - elapsed when elapsed < MIN_DELAY, else no sleep
ThrottleSleep(elapsed) == IF elapsed < MIN_DELAY THEN MIN_DELAY - elapsed ELSE 0

\* the rotation test of lines 86-87
NeedsRotation(m) ==
    m.session_age > SESSION_DURATION \/ m.request_count >= SESSION_REQUESTS

\* the longest time the model measures since a response
WaitCap == RETRY_AFTER_DEFAULT * Second

-----------------------------------------------------------------------------
(* Pages, URLs and page bodies.                                            *)

\* ThreadPoolExecutor(max_workers=MAX_CONCURRENT_REQUESTS): 8 in the source,
\* scaled down with the page ceilings so that a page list can be longer than
\* the pool
MAX_CONCURRENT_REQUESTS == 2
\* len(content.get_text(strip=True)) > 100 (line 261) and > 500 (line 267)
MIN_SELECTOR_TEXT == 100
MIN_BLOCK_TEXT == 500
\* int(width) < 300 or int(height) < 300 (line 334)
MIN_IMAGE_SIDE == 300

\* get_pagination_links(url, max_pages=36), and max_pages=66 for scans, scaled
\* down (final_scrapping.py runs with 3 and 2)
TextMaxPages == 3
ScanMaxPages == 2
\* the months get_month_links finds in the year
NumMonths == 2

Months == 1..NumMonths

\* A URL is the sequence of its characters; the part up to the issue's
\* directory, which no operation looks into except for its dots, is
\* abbreviated to a few tokens.
Host == <<"http://literature", ".", "awgp", ".", "org/hindi/akhandjyoti/1950/January/">>

IssueUrls == {Host \o <<"v", "2", ".", "1">>, Host \o <<"v", "1", "0">>}

DigitChars == <<"0", "1", "2", "3", "4", "5", "6", "7", "8", "9">>

IsDigit(c) == \E i \in 1..Len(DigitChars) : DigitChars[i] = c

\* str(n) of an f-string, n >= 0
RECURSIVE Digits(_)
Digits(n) ==
    IF n < 10 THEN <<DigitChars[n + 1]>>
    ELSE Digits(n \div 10) \o <<DigitChars[(n % 10) + 1]>>

\* '.' in url
HasDot(url) == \E i \in 1..Len(url) : url[i] = "."

\* line 210: f"{url}.{page}" if '.' not in url else f"{url[:-2]}.{page}"
PageUrl(url, page) ==
    IF ~HasDot(url) THEN url \o <<".">> \o Digits(page)
    ELSE SubSeq(url, 1, Len(url) - 2) \o <<".">> \o Digits(page)

\* what the fetch of page 1 shows get_pagination_links: whether it arrived, and
\* the largest number among the links of its pagination element (0 without one)
FirstPages(ceiling) ==
    {[ok |-> FALSE, detected |-> 0]}
        \cup {[ok |-> TRUE, detected |-> d] : d \in 0..(ceiling + 1)}

DetectedPagesNoCeiling(max_pages, first) ==
    IF first.ok /\ first.detected > 0 THEN first.detected ELSE max_pages

\* lines 189-206: max_pages after the look at page 1
DetectedPages(max_pages, first) ==
    IF first.ok /\ first.detected > 0 THEN Min(max_pages, first.detected)
    ELSE max_pages

\* lines 185-213
GetPaginationLinks(url, max_pages, first) ==
    <<url>> \o [k \in 1..(DetectedPages(max_pages, first) - 1) |-> PageUrl(url, k + 1)]

\* the number of digits url ends with
RECURSIVE TrailingDigits(_)
TrailingDigits(url) ==
    IF url # <<>> /\ IsDigit(url[Len(url)])
    THEN 1 + TrailingDigits(SubSeq(url, 1, Len(url) - 1))
    ELSE 0

\* lines 279-280: re.search(r'\.(\d+)$', page_url), "1" without a match
PageNum(url) ==
    LET k == TrailingDigits(url)
    IN  IF k > 0 /\ Len(url) > k /\ url[Len(url) - k] = "."
        THEN SubSeq(url, Len(url) - k + 1, Len(url))
        ELSE <<"1">>

\* soup.select_one(selector) finding nothing
NoElem == -1

\* A page body, as far as the text extraction looks at it: for each of the
\* seven selectors of lines 253-256 the visible-text length of the element
\* select_one returns (NoElem without one), and the visible-text lengths of the
\* page's div, article and section elements.
Body(sel, blocks) == [sel |-> sel, blocks |-> blocks]

Bodies ==
    { Body(<<150, NoElem, NoElem, NoElem, NoElem, NoElem, NoElem>>, {150}),
      Body(<<50, NoElem, NoElem, 150, NoElem, NoElem, NoElem>>, {50, 150}),
      Body(<<NoElem, NoElem, NoElem, NoElem, NoElem, NoElem, NoElem>>, {600, 501}),
      Body(<<100, NoElem, NoElem, NoElem, NoElem, NoElem, NoElem>>, {100, 600}),
      Body(<<NoElem, NoElem, NoElem, NoElem, NoElem, NoElem, NoElem>>, {500}),
      Body(<<NoElem, NoElem, NoElem, NoElem, NoElem, NoElem, NoElem>>, {}),
      Body(<<NoElem, NoElem, NoElem, NoElem, NoElem, NoElem, 50>>, {50}),
      Body(<<NoElem, NoElem, NoElem, NoElem, NoElem, NoElem, 0>>, {0}) }

\* lines 258-262: the for loop leaves in content what the last selector tried
\* returned, also when the loop ends without a break
RECURSIVE SelectorLoop(_, _, _)
SelectorLoop(sel, i, content) ==
    IF i > Len(sel) THEN content
    ELSE IF sel[i] # NoElem /\ sel[i] > MIN_SELECTOR_TEXT THEN sel[i]
    ELSE SelectorLoop(sel, i + 1, sel[i])

SetMax(S) == CHOOSE x \in S : \A y \in S : y <= x

\* lines 264-269: "if not content" is false for every element found, whatever
\* its text: an element is truthy
LargestBlock(blocks) ==
    LET big == {b \in blocks : b > MIN_BLOCK_TEXT}
    IN  IF big = {} THEN NoElem ELSE SetMax(big)

\* lines 258-272: the visible-text length of the element chosen, or NoElem
SelectContent(body) ==
    LET content == SelectorLoop(body.sel, 1, NoElem)
    IN  IF content # NoElem THEN content ELSE LargestBlock(body.blocks)

\* An <img>: has_src, whether its src holds one of 'icon', 'logo', 'button',
\* 'nav', its width and height attributes, and whether the download of the
\* image succeeds.
Attr(kind, n) == [kind |-> kind, n |-> n]

Img(has_src, decorative, width, height, fetched) ==
    [has_src |-> has_src, decorative |-> decorative, width |-> width,
     height |-> height, fetched |-> fetched]

\* img.get('width', '0')
AttrOrZero(a) == IF a.kind = "absent" THEN Attr("int", 0) ELSE a

\* lines 331-337: int(...) of a value that is not a number raises ValueError,
\* which is passed over: the image is kept
TooSmall(img) ==
    LET w == AttrOrZero(img.width)
        h == AttrOrZero(img.height)
    IN  IF w.kind # "int" THEN FALSE
        ELSE IF w.n < MIN_IMAGE_SIDE THEN TRUE
        ELSE IF h.kind # "int" THEN FALSE
        ELSE h.n < MIN_IMAGE_SIDE

\* lines 322-337
ImageAccepted(img) == img.has_src /\ ~img.decorative /\ ~TooSmall(img)

ScanBodies ==
    { <<>>,
      <<Img(TRUE, FALSE, Attr("int", 400), Attr("int", 400), TRUE)>>,
      <<Img(TRUE, FALSE, Attr("int", 400), Attr("int", 400), FALSE)>>,
      <<Img(TRUE, TRUE, Attr("int", 400), Attr("int", 400), TRUE),
        Img(TRUE, FALSE, Attr("int", 200), Attr("int", 200), TRUE)>>,
      <<Img(TRUE, FALSE, Attr("absent", 0), Attr("absent", 0), TRUE)>>,
      <<Img(TRUE, FALSE, Attr("junk", 0), Attr("int", 400), TRUE),
        Img(TRUE, FALSE, Attr("int", 400), Attr("junk", 0), TRUE)>> }

\* lines 339-362: the images of the page downloaded and written
Downloaded(imgs) ==
    Cardinality({i \in 1..Len(imgs) : ImageAccepted(imgs[i]) /\ imgs[i].fetched})

\* What make_request(page_url) and the reading of the body give a page worker:
\* None, an exception (response.text reads the streamed body), or a body.
Fetches(kind) ==
    {[kind |-> "fail", body |-> <<>>]}
        \cup (IF site.raises THEN {[kind |-> "raise", body |-> <<>>]} ELSE {})
        \cup {[kind |-> "ok", body |-> b] :
                 b \in IF kind = "text" THEN site.bodies ELSE site.scans}

NoResult == [kind |-> "none", marker |-> <<>>, len |-> 0, n |-> 0]

\* lines 244-281: process_text_page
ProcessTextPage(page_url, fetch) ==
    IF fetch.kind = "raise" THEN [NoResult EXCEPT !.kind = "raise"]
    ELSE IF fetch.kind = "fail" THEN NoResult
    ELSE IF SelectContent(fetch.body) = NoElem THEN NoResult
    ELSE [kind |-> "text", marker |-> PageNum(page_url),
          len |-> SelectContent(fetch.body), n |-> 0]

\* lines 310-362: process_scan_page
ProcessScanPage(page_url, fetch) ==
    IF fetch.kind = "raise" THEN [NoResult EXCEPT !.kind = "raise"]
    ELSE [kind |-> "count", marker |-> <<>>, len |-> 0,
          n |-> IF fetch.kind = "fail" THEN 0 ELSE Downloaded(fetch.body)]

\* the text file of a month and the metadata file
NoFile == [exists |-> FALSE, sections |-> <<>>]

IdleJob ==
    [kind |-> "none", phase |-> "idle", month |-> 0, url |-> <<>>, page_urls |-> <<>>,
     status |-> <<>>, got |-> <<>>, res |-> <<>>, doneQ |-> <<>>, all_text |-> <<>>,
     content_found |-> FALSE, downloaded |-> 0, ret |-> FALSE]

\* download_text_content(url, output_file) or download_scan_images(url, dir)
\* entered, for the month's issue
NewJob(kind, url, month) ==
    [IdleJob EXCEPT !.kind = kind, !.phase = "paginate", !.url = url, !.month = month]

\* metadata.json: the month records written so far, and whether the document
\* was written to its end
NoMeta == [exists |-> FALSE, entries |-> <<>>, complete |-> FALSE]

NoDisk == [text |-> [m \in Months |-> NoFile], meta |-> NoMeta]

\* the site: the first pages, the page bodies and the scan pages it may serve,
\* and whether the reading of a body may fail
FullSite ==
    [firsts |-> FirstPages(TextMaxPages), bodies |-> Bodies, scans |-> ScanBodies,
     raises |-> TRUE]

\* the month record of lines 412-419; None is the empty URL
NoUrl == <<>>

NoRec ==
    [has |-> FALSE, has_text |-> FALSE, has_scan |-> FALSE, text_source |-> NoUrl,
     scan_source |-> NoUrl]

FreshRec == [NoRec EXCEPT !.has = TRUE]

NoMetadata == [m \in Months |-> NoRec]

\* the links get_month_links finds for a month: which versions exist
Versions == [text : BOOLEAN, scan : BOOLEAN]

OffMain ==
    [pc |-> "off", run |-> 0, month |-> 0, versions |-> [m \in Months |-> [text |-> FALSE, scan |-> FALSE]],
     metadata |-> NoMetadata, month_metadata |-> NoRec, text_downloaded |-> FALSE,
     before |-> NoMeta, fetched |-> FALSE, scan_started |-> FALSE,
     had_text_file |-> FALSE, text_ran |-> FALSE, usable |-> FALSE,
     finished |-> {}, stored |-> {}]

\* no page-level function is being called
NoCall == [fn |-> "none", arg |-> <<>>, out |-> <<>>, returned |-> FALSE]

\* the sequential script not running
NoScript == [pc |-> "off", request_counter |-> 0, log |-> <<>>]

-----------------------------------------------------------------------------
(* RequestManager.__init__ and the idle workers.                           *)

IdleWorker ==
    [pc |-> "idle", attempt |-> 0, sleep |-> 0, tmp |-> 0, insess |-> 0,
     stale |-> FALSE, waited |-> 0, hist |-> <<>>, result |-> "none"]

\* rm.elapsed is time.time() - last_request_time, capped at MIN_DELAY:
\* last_request_time = 0 is the epoch, so the first call finds it large.
\* rm.session_age is time.time() - session_start, capped above SESSION_DURATION.
InitManager ==
    [session |-> 1, closed |-> {}, elapsed |-> MIN_DELAY, request_count |-> 0,
     session_age |-> 0]

\* obs.threads: the threads that call make_request; obs.trace: whether the
\* responses and sleeps of each call are recorded in wk[w].hist; obs.served[s]:
\* the 200 responses received on session s
InitObs(threads, trace) ==
    [threads |-> threads, trace |-> trace, calls |-> 0, sent |-> FALSE,
     sinceSend |-> MIN_DELAY, tooClose |-> FALSE, okSinceRot |-> 0, sessions |-> 1,
     served |-> <<0>>]

InitReq ==
    /\ rm = InitManager
    /\ wk = [w \in Workers |-> IdleWorker]
    /\ obs = InitObs(Workers, FALSE)
    /\ job = IdleJob
    /\ disk = NoDisk
    /\ mn = OffMain
    /\ site = FullSite
    /\ ev = NoCall
    /\ sq = NoScript

InitCall ==
    /\ rm = InitManager
    /\ wk = [w \in Workers |-> IdleWorker]
    /\ obs = InitObs({1}, TRUE)
    /\ job = IdleJob
    /\ disk = NoDisk
    /\ mn = OffMain
    /\ site = FullSite
    /\ ev = NoCall
    /\ sq = NoScript

\* A thread between two statements that take no time: the clock stands still
\* until it has run on to a sleep, the wait for a response, or the return.
Busy(w) ==
    \/ wk[w].pc \in {"rot_close", "rot_new", "rot_reset", "incr_load", "incr_store"}
    \/ wk[w].pc \in {"rotate_check", "send"} /\ wk[w].sleep = 0

Record(h, e) == IF obs.trace THEN Append(h, e) ELSE h

\* the sleeps still running
Sleeps == {wk[w].sleep : w \in {v \in Workers : wk[v].sleep > 0}}

SetMin(S) == CHOOSE x \in S : \A y \in S : x <= y

\* Time passes, up to the next moment a sleep ends (one tick when no thread
\* sleeps): sleeps run down, ages grow.
TickBy(d) ==
    /\ \A w \in Workers : ~Busy(w)
    /\ rm' = [rm EXCEPT !.elapsed = Min(@ + d, MIN_DELAY),
                        !.session_age = Min(@ + d, SESSION_DURATION + 1)]
    /\ wk' = [w \in Workers |-> [wk[w] EXCEPT
                 !.sleep = IF @ > 0 THEN @ - d ELSE 0,
                 !.waited = IF wk[w].pc \in {"send", "await"} /\ obs.trace
                            THEN Min(@ + d, WaitCap) ELSE @]]
    /\ obs' = [obs EXCEPT !.sinceSend = Min(@ + d, MIN_DELAY)]
    /\ reqVars' # reqVars
    /\ UNCHANGED progVars

Tick == TickBy(IF Sleeps = {} THEN 1 ELSE SetMin(Sleeps))

\* make_request entered: the throttle of lines 81-83
CallStart(w) ==
    /\ wk[w].pc = "idle"
    /\ w \in obs.threads
    /\ obs.calls < MaxCalls
    /\ wk' = [wk EXCEPT ![w] = [IdleWorker EXCEPT
                 !.pc = "rotate_check",
                 !.sleep = ThrottleSleep(rm.elapsed)]]
    /\ obs' = [obs EXCEPT !.calls = @ + 1]
    /\ UNCHANGED rm
    /\ UNCHANGED progVars

\* lines 86-88: the test, and the call of rotate_session
RotateCheck(w) ==
    /\ wk[w].pc = "rotate_check"
    /\ wk[w].sleep = 0
    /\ wk' = [wk EXCEPT ![w].pc = IF NeedsRotation(rm) THEN "rot_close" ELSE "send"]
    /\ UNCHANGED <<rm, obs>>
    /\ UNCHANGED progVars

\* line 74: self.session.close()
RotClose(w) ==
    /\ wk[w].pc = "rot_close"
    /\ rm' = [rm EXCEPT !.closed = @ \cup {rm.session}]
    /\ wk' = [wk EXCEPT ![w].pc = "rot_new"]
    /\ UNCHANGED obs
    /\ UNCHANGED progVars

\* line 75: self.session = requests.Session()
RotNew(w) ==
    /\ wk[w].pc = "rot_new"
    /\ rm' = [rm EXCEPT !.session = obs.sessions + 1]
    /\ obs' = [obs EXCEPT !.sessions = @ + 1, !.served = Append(@, 0)]
    /\ wk' = [wk EXCEPT ![w].pc = "rot_reset"]
    /\ UNCHANGED progVars

\* lines 76-77: self.session_start = time.time(); self.request_count = 0
RotReset(w) ==
    /\ wk[w].pc = "rot_reset"
    /\ rm' = [rm EXCEPT !.session_age = 0, !.request_count = 0]
    /\ obs' = [obs EXCEPT !.okSinceRot = 0]
    /\ wk' = [wk EXCEPT ![w].pc = "send"]
    /\ UNCHANGED progVars

\* lines 100-108: one pass of the for loop sends self.session.get(...)
Send(w) ==
    /\ wk[w].pc = "send"
    /\ wk[w].sleep = 0
    /\ wk[w].attempt < MAX_RETRIES
    /\ wk' = [wk EXCEPT ![w].pc = "await", ![w].insess = rm.session,
                        ![w].stale = NeedsRotation(rm)]
    /\ obs' = [obs EXCEPT
                 !.sent = TRUE,
                 !.sinceSend = 0,
                 !.tooClose = @ \/ (obs.sent /\ obs.sinceSend < MIN_DELAY)]
    /\ UNCHANGED rm
    /\ UNCHANGED progVars

\* line 126: the loop is exhausted, return None
ReturnNone(w) ==
    /\ wk[w].pc = "send"
    /\ wk[w].sleep = 0
    /\ wk[w].attempt >= MAX_RETRIES
    /\ wk' = [wk EXCEPT ![w].pc = "idle", ![w].result = "fail", ![w].waited = 0,
                        ![w].insess = 0]
    /\ UNCHANGED <<rm, obs>>
    /\ UNCHANGED progVars

\* a 200 response that leaves last_request_time as it was
Resp200KeepsClock(w) ==
    /\ wk[w].pc = "await"
    /\ wk' = [wk EXCEPT ![w].pc = "incr_load", ![w].waited = 0, ![w].insess = 0,
                 ![w].stale = FALSE,
                 ![w].hist = Record(@, [status |-> "200", hdr |-> NoHeader,
                                        slept |-> 0])]
    /\ obs' = [obs EXCEPT !.served[wk[w].insess] = @ + 1]
    /\ UNCHANGED rm
    /\ UNCHANGED progVars

\* lines 110-111: a 200 response; self.last_request_time = time.time()
Resp200(w) ==
    /\ wk[w].pc = "await"
    /\ rm' = [rm EXCEPT !.elapsed = 0]
    /\ wk' = [wk EXCEPT ![w].pc = "incr_load", ![w].waited = 0, ![w].insess = 0,
                 ![w].stale = FALSE,
                 ![w].hist = Record(@, [status |-> "200", hdr |-> NoHeader,
                                        slept |-> 0])]
    /\ obs' = [obs EXCEPT !.served[wk[w].insess] = @ + 1]
    /\ UNCHANGED progVars

\* line 112, self.request_count += 1: the load ...
IncrLoad(w) ==
    /\ wk[w].pc = "incr_load"
    /\ wk' = [wk EXCEPT ![w].pc = "incr_store", ![w].tmp = rm.request_count]
    /\ UNCHANGED <<rm, obs>>
    /\ UNCHANGED progVars

\* ... and the store; line 113: return response
IncrStore(w) ==
    /\ wk[w].pc = "incr_store"
    /\ rm' = [rm EXCEPT !.request_count = wk[w].tmp + 1]
    /\ wk' = [wk EXCEPT ![w].pc = "idle", ![w].result = "ok", ![w].tmp = 0]
    /\ obs' = [obs EXCEPT !.okSinceRot = @ + 1]
    /\ UNCHANGED progVars

\* a loop in which a 429 response does not use up an attempt
RespFailKeepsSlot(w) ==
    /\ wk[w].pc = "await"
    /\ \E resp \in Responses :
        /\ resp.status # "200"
        /\ wk' = [wk EXCEPT
              ![w].pc = "send",
              ![w].sleep = SleepAfter(resp, wk[w].attempt),
              ![w].attempt = IF resp.status = "429" THEN @ ELSE @ + 1,
              ![w].waited = 0,
              ![w].stale = FALSE,
              ![w].hist = Record(@, [status |-> resp.status, hdr |-> resp.hdr,
                                     slept |-> SleepAfter(resp, wk[w].attempt)])]
    /\ UNCHANGED <<rm, obs>>
    /\ UNCHANGED progVars

\* lines 114-124: a 429, another status, or an exception: sleep, next attempt
RespFail(w) ==
    /\ wk[w].pc = "await"
    /\ \E resp \in Responses :
        /\ resp.status # "200"
        /\ wk' = [wk EXCEPT
              ![w].pc = "send",
              ![w].sleep = SleepAfter(resp, wk[w].attempt),
              ![w].attempt = @ + 1,
              ![w].waited = 0,
              ![w].stale = FALSE,
              ![w].hist = Record(@, [status |-> resp.status, hdr |-> resp.hdr,
                                     slept |-> SleepAfter(resp, wk[w].attempt)])]
    /\ UNCHANGED <<rm, obs>>
    /\ UNCHANGED progVars

NextReq ==
    \/ Tick
    \/ \E w \in Workers : CallStart(w)
    \/ \E w \in Workers : RotateCheck(w)
    \/ \E w \in Workers : RotClose(w)
    \/ \E w \in Workers : RotNew(w)
    \/ \E w \in Workers : RotReset(w)
    \/ \E w \in Workers : Send(w)
    \/ \E w \in Workers : ReturnNone(w)
    \/ \E w \in Workers : Resp200(w)
    \/ \E w \in Workers : IncrLoad(w)
    \/ \E w \in Workers : IncrStore(w)
    \/ \E w \in Workers : RespFail(w)

SpecReq == InitReq /\ [][NextReq]_vars

SpecCall == InitCall /\ [][NextReq]_vars

-----------------------------------------------------------------------------
(* Properties of make_request.                                             *)

Last(h) == h[Len(h)]

All500(h) == h # <<>> /\ \A i \in 1..Len(h) : h[i].status = "500"

\* C2: a make_request call whose every attempt is answered with HTTP 500
\* sends exactly MAX_RETRIES requests and then returns None, and the sleeps
\* between its attempts are 2^attempt seconds, attempt = 0, 1, 2, ..., which
\* never decrease.
RetryBound ==
    \A w \in Workers :
        LET h == wk[w].hist
        IN  All500(h) =>
              /\ Len(h) <= MAX_RETRIES
              /\ \A i \in 1..Len(h) : h[i].slept = Pow2(i - 1) * Second
              /\ \A i, j \in 1..Len(h) : i <= j => h[i].slept <= h[j].slept
              /\ wk[w].pc = "idle" => wk[w].result = "fail" /\ Len(h) = MAX_RETRIES
              /\ Len(h) = MAX_RETRIES => wk[w].pc \in {"send", "idle"}

RetryBoundWitness ==
    \E w \in Workers :
        /\ wk[w].pc = "idle"
        /\ wk[w].result = "fail"
        /\ All500(wk[w].hist)
        /\ Len(wk[w].hist) = MAX_RETRIES

\* C3: a 429 response does not use up an attempt: a call gives up only after
\* MAX_RETRIES attempts that ended in a failure other than a 429.
RateLimitKeepsSlot ==
    \A w \in Workers :
        wk[w].result = "fail" =>
            Cardinality({i \in 1..Len(wk[w].hist) : wk[w].hist[i].status # "429"})
                = MAX_RETRIES

\* C4: after a 429 response with Retry-After: N, N a non-negative integer, the
\* call sends its next request no sooner than N seconds later.
RetryAfterHonored ==
    \A w \in Workers :
        LET h == wk[w].hist
        IN  (wk[w].pc = "await" /\ h # <<>> /\ Last(h).status = "429"
                /\ Last(h).hdr.kind = "int")
                => wk[w].waited >= Last(h).hdr.n * Second

RetryAfterHonoredWitness ==
    \E w \in Workers :
        LET h == wk[w].hist
        IN  /\ wk[w].pc = "await"
            /\ h # <<>>
            /\ Last(h).status = "429"
            /\ Last(h).hdr = [kind |-> "int", n |-> MaxRetryAfter]
            /\ wk[w].waited = MaxRetryAfter * Second

\* C18: the wait after a 429 response is 30 seconds whenever its Retry-After
\* header is absent or is not an integer (an HTTP date, say).
RetryAfterDefault ==
    \A w \in Workers :
        \A i \in 1..Len(wk[w].hist) :
            (wk[w].hist[i].status = "429" /\ wk[w].hist[i].hdr.kind # "int")
                => wk[w].hist[i].slept = RETRY_AFTER_DEFAULT * Second

\* a thread between its 200 response and the end of request_count += 1
Counting(w) == wk[w].pc \in {"incr_load", "incr_store"}

\* no request has been answered 200 since the manager was constructed
No200Yet == \A i \in 1..Len(obs.served) : obs.served[i] = 0

RequestsSpaced == ~obs.tooClose

\* a worker between the two halves of an update of the shared fields
InUpdate(w) == wk[w].pc \in {"rot_new", "rot_reset", "incr_store"}

\* C10: the rotation state and the counters are changed under mutual
\* exclusion: at most one worker is inside an update of request_count,
\* session_start and session, request_count is the number of 200 responses
\* counted since the last rotation, and no worker has a request in flight on
\* a session that was closed.
GuardedManager ==
    /\ Cardinality({w \in Workers : InUpdate(w)}) <= 1
    /\ rm.request_count = obs.okSinceRot
    /\ \A w \in Workers : wk[w].pc = "await" => wk[w].insess \notin rm.closed

\* no session has served more than SESSION_REQUESTS successful requests
ServedBound == \A s \in 1..Len(obs.served) : obs.served[s] <= SESSION_REQUESTS

\* no request is in flight that was sent while the rotation test was true
FreshAtSend == \A w \in Workers : wk[w].pc = "await" => ~wk[w].stale

\* C11: a session is rotated before a request is sent whenever its age exceeds
\* SESSION_DURATION or it has served SESSION_REQUESTS successful requests, so
\* no session ever serves more than SESSION_REQUESTS successful requests,
\* whatever the interleaving of the workers.
SessionRotated == ServedBound /\ FreshAtSend

-----------------------------------------------------------------------------
(* A job: download_text_content (lines 215-242) or download_scan_images    *)
(* (lines 283-308), and the page workers of its ThreadPoolExecutor.        *)

Ceiling(kind) == IF kind = "text" THEN TextMaxPages ELSE ScanMaxPages

Pages == 1..Len(job.page_urls)

Running == {p \in Pages : job.status[p] = "running"}

\* lines 217 and 223 (285 and 292-298): the page list, every page submitted
Paginate ==
    /\ job.phase = "paginate"
    /\ \E first \in site.firsts :
        LET urls == GetPaginationLinks(job.url, Ceiling(job.kind), first)
        IN  job' = [job EXCEPT !.phase = "pool", !.page_urls = urls,
                       !.status = [p \in 1..Len(urls) |-> "queued"],
                       !.got = [p \in 1..Len(urls) |-> "none"],
                       !.res = [p \in 1..Len(urls) |-> NoResult]]
    /\ UNCHANGED <<reqVars, disk, mn, site, ev, sq>>

\* an executor that runs every submitted page at once
WorkerStartUnbounded(p) ==
    /\ job.phase = "pool"
    /\ job.status[p] = "queued"
    /\ job' = [job EXCEPT !.status[p] = "running"]
    /\ UNCHANGED <<reqVars, disk, mn, site, ev, sq>>

\* a thread of the pool, of which there are MAX_CONCURRENT_REQUESTS, takes the
\* next page submitted
WorkerStart(p) ==
    /\ job.phase = "pool"
    /\ job.status[p] = "queued"
    /\ \A q \in 1..(p - 1) : job.status[q] # "queued"
    /\ Cardinality(Running) < MAX_CONCURRENT_REQUESTS
    /\ job' = [job EXCEPT !.status[p] = "running"]
    /\ UNCHANGED <<reqVars, disk, mn, site, ev, sq>>

\* process_text_page or process_scan_page returns, or raises: the future is done
WorkerDone(p) ==
    /\ job.phase = "pool"
    /\ job.status[p] = "running"
    /\ \E fetch \in Fetches(job.kind) :
        job' = [job EXCEPT
            !.status[p] = "done",
            !.got[p] = fetch.kind,
            !.res[p] = IF job.kind = "text"
                       THEN ProcessTextPage(job.page_urls[p], fetch)
                       ELSE ProcessScanPage(job.page_urls[p], fetch),
            !.doneQ = Append(@, p)]
    /\ UNCHANGED <<reqVars, disk, mn, site, ev, sq>>

\* the loop without its try: the exception of a page worker ends the job
CollectUnguarded ==
    /\ job.phase = "pool"
    /\ job.doneQ # <<>>
    /\ LET p == Head(job.doneQ)
           r == job.res[p]
       IN  job' = IF r.kind = "raise"
                  THEN [job EXCEPT !.phase = "returned", !.ret = FALSE]
                  ELSE [job EXCEPT
                           !.doneQ = Tail(@),
                           !.status[p] = "collected",
                           !.all_text = IF r.kind = "text"
                                        THEN Append(@, [page |-> p, marker |-> r.marker,
                                                        len |-> r.len])
                                        ELSE @,
                           !.content_found = @ \/ r.kind = "text",
                           !.downloaded = @ + r.n]
    /\ UNCHANGED <<reqVars, disk, mn, site, ev, sq>>

\* lines 225-233 (302-306): as_completed hands over the next finished future
Collect ==
    /\ job.phase = "pool"
    /\ job.doneQ # <<>>
    /\ LET p == Head(job.doneQ)
           r == job.res[p]
       IN  job' = [job EXCEPT
               !.doneQ = Tail(@),
               !.status[p] = "collected",
               !.all_text = IF r.kind = "text"
                            THEN Append(@, [page |-> p, marker |-> r.marker,
                                            len |-> r.len])
                            ELSE @,
               !.content_found = @ \/ r.kind = "text",
               !.downloaded = @ + r.n]
    /\ UNCHANGED <<reqVars, disk, mn, site, ev, sq>>

\* lines 235-242 (308): every future collected, the pool shut down; the text
\* job writes its file unless no page gave content
Finish ==
    /\ job.phase = "pool"
    /\ \A p \in Pages : job.status[p] = "collected"
    /\ job' = [job EXCEPT
           !.phase = "returned",
           !.ret = IF job.kind = "text" THEN job.content_found
                   ELSE job.downloaded > 0]
    /\ disk' = IF job.kind = "text" /\ job.content_found
               THEN [disk EXCEPT !.text[job.month] =
                        [exists |-> TRUE, sections |-> job.all_text]]
               ELSE disk
    /\ UNCHANGED <<reqVars, mn, site, ev, sq>>

NextJob ==
    \/ Paginate
    \/ \E p \in Pages : WorkerStart(p)
    \/ \E p \in Pages : WorkerDone(p)
    \/ Collect
    \/ Finish

\* one text job, for the first month's issue
InitText ==
    /\ rm = InitManager
    /\ wk = [w \in Workers |-> IdleWorker]
    /\ obs = InitObs({}, FALSE)
    /\ \E url \in IssueUrls : job = NewJob("text", url, 1)
    /\ disk = NoDisk
    /\ mn = OffMain
    /\ site = FullSite
    /\ ev = NoCall
    /\ sq = NoScript

SpecText == InitText /\ [][NextJob]_vars

-----------------------------------------------------------------------------
(* Properties of the text job.                                             *)

\* C1: whatever the order in which the page workers finish, the text file
\* holds the page sections in strictly ascending page order.
TextInPageOrder ==
    \A m \in Months :
        LET t == disk.text[m].sections
        IN  \A i, j \in 1..Len(t) : i < j => t[i].page < t[j].page

\* the pages of the returned job that gave text that is not empty
PagesWithText == {p \in Pages : job.res[p].kind = "text" /\ job.res[p].len > 0}

\* C5: the text job returns True, and writes its file, if and only if at least
\* one page gave text that is not empty.
SuccessIffContent ==
    (job.kind = "text" /\ job.phase = "returned") =>
        /\ job.ret <=> PagesWithText # {}
        /\ disk.text[job.month].exists <=> PagesWithText # {}

\* the sections of page p in the text the job has put together
SectionsOf(p) == {i \in 1..Len(job.all_text) : job.all_text[i].page = p}

\* the pages whose worker returned a section
Contributing == {p \in Pages : job.got[p] = "ok" /\ job.res[p].kind = "text"}

\* C14: a page whose fetch fails after its retries, or whose worker raises,
\* adds nothing to the job and does not end it: every page is collected, each
\* other page that gave content has its one section in the output, and the
\* job reports success when there is such a page.
FailureIsolated ==
    (job.kind = "text" /\ job.phase = "returned") =>
        /\ \A p \in Pages : job.status[p] = "collected"
        /\ \A p \in Pages :
              Cardinality(SectionsOf(p)) = IF p \in Contributing THEN 1 ELSE 0
        /\ job.ret <=> Contributing # {}
        /\ job.ret => disk.text[job.month].sections = job.all_text

FailureIsolatedWitness ==
    /\ job.kind = "text"
    /\ job.phase = "returned"
    /\ Len(job.page_urls) = 3
    /\ job.got[1] = "ok" /\ 1 \in Contributing
    /\ job.got[2] = "raise"
    /\ job.got[3] = "fail"
    /\ job.ret
    /\ Len(disk.text[job.month].sections) = 1

\* the marker of every section names the 1-based index of its page
MarkerIsIndex ==
    \A i \in 1..Len(job.all_text) :
        job.all_text[i].marker = Digits(job.all_text[i].page)

\* one section for each page that gave text that is not empty, none for another
SectionPerContentPage ==
    \A p \in Pages :
        Cardinality(SectionsOf(p)) = IF p \in PagesWithText THEN 1 ELSE 0

\* C21: in the text put together by a returned text job every section carries
\* the marker --- PAGE n --- with n the 1-based index of its page in the page
\* list, and there is exactly one section for each page that gave content and
\* none for a page that was skipped.
MarkedSections ==
    (job.kind = "text" /\ job.phase = "returned") =>
        MarkerIsIndex /\ SectionPerContentPage

-----------------------------------------------------------------------------
(* main() (lines 364-465), over the months of one year; the process may be *)
(* interrupted at any point and run again.                                 *)

\* processes started
MaxRuns == 2

\* the URLs of a month's text and scan versions
MonthUrl(m, v) ==
    <<"http://literature", ".", "awgp", ".", "org/hindi/akhandjyoti/1950/">>
        \o Digits(m) \o <<"/", "v", v, ".", "1">>

TextUrl(m) == MonthUrl(m, "2")

ScanUrl(m) == MonthUrl(m, "1")

\* json.dump(metadata, f): the document, record by record
RECURSIVE EntriesFrom(_, _)
EntriesFrom(metadata, m) ==
    IF m > NumMonths THEN <<>>
    ELSE (IF metadata[m].has THEN <<[month |-> m, rec |-> metadata[m]]>> ELSE <<>>)
             \o EntriesFrom(metadata, m + 1)

FileOf(metadata) ==
    [exists |-> TRUE, entries |-> EntriesFrom(metadata, 1), complete |-> TRUE]

\* lines 371-376: json.load of the file; a document that is not complete raises,
\* which is logged, and metadata stays {}
LoadMetadata(file) ==
    IF file.exists /\ file.complete
    THEN [m \in Months |->
             IF \E i \in 1..Len(file.entries) : file.entries[i].month = m
             THEN (CHOOSE e \in {file.entries[i] : i \in 1..Len(file.entries)} :
                       e.month = m).rec
             ELSE NoRec]
    ELSE NoMetadata

\* the process starts: lines 366-376
StartRun ==
    /\ mn.pc \in {"start", "done", "crashed"}
    /\ mn.run < MaxRuns
    /\ mn' = [mn EXCEPT !.pc = "year", !.run = @ + 1, !.month = 0,
                        !.versions = OffMain.versions, !.finished = {},
                        !.metadata = LoadMetadata(disk.meta),
                        !.month_metadata = NoRec, !.text_downloaded = FALSE,
                        !.before = disk.meta, !.fetched = FALSE,
                        !.scan_started = FALSE, !.had_text_file = FALSE,
                        !.text_ran = FALSE, !.usable = FALSE]
    /\ job' = IdleJob
    /\ UNCHANGED <<reqVars, disk, site, ev, sq>>

\* lines 396-401: get_month_links; without the year's page there are no months
GetMonthLinks ==
    /\ mn.pc = "year"
    /\ \/ mn' = [mn EXCEPT !.pc = "done", !.month = 1]
       \/ \E v \in [Months -> Versions] :
              mn' = [mn EXCEPT !.pc = "month", !.month = 1, !.versions = v]
    /\ UNCHANGED <<reqVars, job, disk, site, ev, sq>>

\* os.path.exists(text_file)
TextFileExists(m) == disk.text[m].exists

\* lines 404-436, up to the call of download_text_content: the next month of
\* months_data, which holds the months with a link
MonthStart ==
    /\ mn.pc = "month"
    /\ LET m == mn.month
       IN  IF m > NumMonths
           THEN mn' = [mn EXCEPT !.pc = "done"] /\ job' = job
           ELSE IF ~mn.versions[m].text /\ ~mn.versions[m].scan
           THEN /\ mn' = [mn EXCEPT !.month = m + 1, !.fetched = FALSE,
                              !.scan_started = FALSE, !.had_text_file = FALSE,
                              !.text_ran = FALSE, !.usable = FALSE]
                /\ job' = job
           ELSE IF mn.versions[m].text /\ ~TextFileExists(m)
           THEN /\ mn' = [mn EXCEPT !.pc = "text_job", !.month_metadata = FreshRec,
                              !.text_downloaded = FALSE, !.fetched = TRUE,
                              !.scan_started = FALSE,
                              !.had_text_file = disk.text[m].exists,
                              !.text_ran = TRUE, !.usable = FALSE]
                /\ job' = NewJob("text", TextUrl(m), m)
           ELSE /\ mn' = [mn EXCEPT
                       !.pc = "scan_check",
                       !.month_metadata =
                           IF mn.versions[m].text
                           THEN [FreshRec EXCEPT !.has_text = TRUE,
                                                 !.text_source = TextUrl(m)]
                           ELSE FreshRec,
                       !.text_downloaded = mn.versions[m].text,
                       !.fetched = FALSE, !.scan_started = FALSE,
                       !.had_text_file = disk.text[m].exists,
                       !.text_ran = FALSE, !.usable = FALSE]
                /\ job' = job
    /\ UNCHANGED <<reqVars, disk, site, ev, sq>>

\* lines 428-432: download_text_content has returned
AfterText ==
    /\ mn.pc = "text_job"
    /\ job.phase = "returned"
    /\ mn' = [mn EXCEPT
           !.pc = "scan_check",
           !.month_metadata = IF job.ret
                              THEN [@ EXCEPT !.has_text = TRUE,
                                             !.text_source = TextUrl(mn.month)]
                              ELSE @,
           !.text_downloaded = job.ret,
           !.usable = \E p \in Pages : job.res[p].kind = "text" /\ job.res[p].len > 0]
    /\ job' = IdleJob
    /\ UNCHANGED <<reqVars, disk, site, ev, sq>>

\* a scan job for every month with a scan link, whatever the text job gave
ScanCheckAlways ==
    /\ mn.pc = "scan_check"
    /\ IF mn.versions[mn.month].scan
       THEN /\ mn' = [mn EXCEPT !.pc = "scan_job", !.fetched = TRUE,
                                !.scan_started = TRUE]
            /\ job' = NewJob("scan", ScanUrl(mn.month), mn.month)
       ELSE /\ mn' = [mn EXCEPT !.pc = "update", !.finished = @ \cup {mn.month}]
            /\ job' = job
    /\ UNCHANGED <<reqVars, disk, site, ev, sq>>

\* lines 439-442: the fallback to the scan version
ScanCheck ==
    /\ mn.pc = "scan_check"
    /\ IF ~mn.text_downloaded /\ mn.versions[mn.month].scan
       THEN /\ mn' = [mn EXCEPT !.pc = "scan_job", !.fetched = TRUE,
                                !.scan_started = TRUE]
            /\ job' = NewJob("scan", ScanUrl(mn.month), mn.month)
       ELSE /\ mn' = [mn EXCEPT !.pc = "update", !.finished = @ \cup {mn.month}]
            /\ job' = job
    /\ UNCHANGED <<reqVars, disk, site, ev, sq>>

\* lines 442-445: download_scan_images has returned
AfterScan ==
    /\ mn.pc = "scan_job"
    /\ job.phase = "returned"
    /\ mn' = [mn EXCEPT
           !.pc = "update",
           !.finished = @ \cup {mn.month},
           !.month_metadata = IF job.ret
                              THEN [@ EXCEPT !.has_scan = TRUE,
                                             !.scan_source = ScanUrl(mn.month)]
                              ELSE @]
    /\ job' = IdleJob
    /\ UNCHANGED <<reqVars, disk, site, ev, sq>>

\* lines 448 and 451: the record joins metadata; open(metadata_file, 'w')
\* creates the file or truncates it
OpenMetadata ==
    /\ mn.pc = "update"
    /\ mn' = [mn EXCEPT !.pc = "dump", !.metadata[mn.month] = mn.month_metadata,
                        !.before = disk.meta]
    /\ disk' = [disk EXCEPT !.meta = [exists |-> TRUE, entries |-> <<>>,
                                      complete |-> FALSE]]
    /\ UNCHANGED <<reqVars, job, site, ev, sq>>

\* line 452: json.dump writes the document piece by piece
DumpEntry ==
    /\ mn.pc = "dump"
    /\ Len(disk.meta.entries) < Len(EntriesFrom(mn.metadata, 1))
    /\ disk' = [disk EXCEPT !.meta.entries =
                   Append(@, EntriesFrom(mn.metadata, 1)[Len(@) + 1])]
    /\ UNCHANGED <<reqVars, job, mn, site, ev, sq>>

\* ... to its end; the with block closes the file, and the next month follows
CloseMetadata ==
    /\ mn.pc = "dump"
    /\ Len(disk.meta.entries) = Len(EntriesFrom(mn.metadata, 1))
    /\ disk' = [disk EXCEPT !.meta.complete = TRUE]
    /\ mn' = [mn EXCEPT !.pc = "month", !.month = @ + 1,
                        !.before = [disk.meta EXCEPT !.complete = TRUE],
                        !.stored = @ \cup {m \in Months : mn.metadata[m].has}]
    /\ UNCHANGED <<reqVars, job, site, ev, sq>>

\* the process is interrupted (killed, power lost): its threads and locals are
\* gone, the files stay as they are
Interrupt ==
    /\ mn.pc \notin {"off", "start", "done", "crashed"}
    /\ mn' = [OffMain EXCEPT !.pc = "crashed", !.run = mn.run,
                             !.before = mn.before, !.stored = mn.stored,
                             !.metadata = IF mn.pc = "dump" THEN mn.metadata
                                          ELSE NoMetadata]
    /\ job' = IdleJob
    /\ UNCHANGED <<reqVars, disk, site, ev, sq>>

\* the page workers of a job run only while main waits in it
JobStep == mn.pc \in {"text_job", "scan_job"} /\ NextJob

NextMain ==
    \/ StartRun
    \/ GetMonthLinks
    \/ MonthStart
    \/ JobStep
    \/ AfterText
    \/ ScanCheck
    \/ AfterScan
    \/ OpenMetadata
    \/ DumpEntry
    \/ CloseMetadata
    \/ Interrupt

\* the bodies the site serves in the runs of main: a page with content, a page
\* without, and a page whose last selector finds an element with no text
MainSite ==
    [firsts |-> {[ok |-> TRUE, detected |-> 2]}, raises |-> FALSE,
     bodies |-> { Body(<<150, NoElem, NoElem, NoElem, NoElem, NoElem, NoElem>>, {150}),
                  Body(<<NoElem, NoElem, NoElem, NoElem, NoElem, NoElem, NoElem>>, {}),
                  Body(<<NoElem, NoElem, NoElem, NoElem, NoElem, NoElem, 0>>, {0}) },
     scans |-> { <<>>,
                 <<Img(TRUE, FALSE, Attr("int", 400), Attr("int", 400), TRUE)>> }]

InitMain ==
    /\ rm = InitManager
    /\ wk = [w \in Workers |-> IdleWorker]
    /\ obs = InitObs({}, FALSE)
    /\ job = IdleJob
    /\ disk = NoDisk
    /\ mn = [OffMain EXCEPT !.pc = "start"]
    /\ site = MainSite
    /\ ev = NoCall
    /\ sq = NoScript

SpecMain == InitMain /\ [][NextMain]_vars

\* an issue of more pages than the pool has threads, every page of which has
\* content when its fetch succeeds
LongIssueSite ==
    [firsts |-> {[ok |-> TRUE, detected |-> MAX_CONCURRENT_REQUESTS + 1]},
     raises |-> FALSE,
     bodies |-> { Body(<<150, NoElem, NoElem, NoElem, NoElem, NoElem, NoElem>>, {150}) },
     scans |-> { <<Img(TRUE, FALSE, Attr("int", 400), Attr("int", 400), TRUE)>> }]

InitPool ==
    /\ rm = InitManager
    /\ wk = [w \in Workers |-> IdleWorker]
    /\ obs = InitObs({}, FALSE)
    /\ job = IdleJob
    /\ disk = NoDisk
    /\ mn = [OffMain EXCEPT !.pc = "start"]
    /\ site = LongIssueSite
    /\ ev = NoCall
    /\ sq = NoScript

\* main over the months of a year whose issues are long
SpecPool == InitPool /\ [][NextMain]_vars

-----------------------------------------------------------------------------
(* The page-level functions, each called once on an argument drawn from a   *)
(* bounded set.                                                            *)

\* the width and height attributes an <img> may carry
SizeAttrs ==
    {Attr("absent", 0), Attr("junk", 0)}
        \cup {Attr("int", n) : n \in {0, 200, MIN_IMAGE_SIDE - 1, MIN_IMAGE_SIDE, 400}}

Images ==
    {Img(s, d, w, h, TRUE) : s \in BOOLEAN, d \in BOOLEAN, w \in SizeAttrs, h \in SizeAttrs}

Call(fn, arg) == [fn |-> fn, arg |-> arg, out |-> <<>>, returned |-> FALSE]

\* lines 322-337 of process_scan_page, for one <img>
FilterImage ==
    /\ ev.fn = "filter"
    /\ ~ev.returned
    /\ ev' = [ev EXCEPT !.out = ImageAccepted(ev.arg), !.returned = TRUE]
    /\ UNCHANGED <<reqVars, job, disk, mn, site, sq>>

\* the visible-text lengths an element found by a selector may have
SelectorTexts == {NoElem, 0, MIN_SELECTOR_TEXT, MIN_SELECTOR_TEXT + 1}

\* page bodies in which the first, the fourth and the last selector may match
PageBodies ==
    Bodies \cup
    {Body(<<a, NoElem, NoElem, b, NoElem, NoElem, c>>, blocks) :
        a \in SelectorTexts, b \in SelectorTexts, c \in SelectorTexts,
        blocks \in {{}, {MIN_BLOCK_TEXT}, {MIN_BLOCK_TEXT + 1, 600}}}

\* lines 252-272 of process_text_page, for one page body
ExtractContent ==
    /\ ev.fn = "extract"
    /\ ~ev.returned
    /\ ev' = [ev EXCEPT !.out = SelectContent(ev.arg), !.returned = TRUE]
    /\ UNCHANGED <<reqVars, job, disk, mn, site, sq>>

\* issue URLs: the versioned base path, /v<digits>, and the page suffix that
\* may follow it
BasePaths == {Host \o <<"v", "2">>, Host \o <<"v", "1", "0">>}

PageSuffixes == {<<>>, <<".", "1">>, <<".", "1", "0">>}

PaginationArgs ==
    {[base |-> b, url |-> b \o x, max_pages |-> n, first |-> f] :
        b \in BasePaths, x \in PageSuffixes, n \in 1..TextMaxPages,
        f \in FirstPages(TextMaxPages)}

\* get_pagination_links(url, max_pages), lines 183-213
Paginated ==
    /\ ev.fn = "paginate"
    /\ ~ev.returned
    /\ ev' = [ev EXCEPT
                !.out = GetPaginationLinks(ev.arg.url, ev.arg.max_pages, ev.arg.first),
                !.returned = TRUE]
    /\ UNCHANGED <<reqVars, job, disk, mn, site, sq>>

\* the resolved URLs of the images of a scan page, relative to
\* http://literature.awgp.org/hindi/akhandjyoti/1950/January/
ImageUrls == {"scan_1.jpg", "scan_58262.jpg", "scan_109141.jpg"}

\* line 347: hashlib.md5(img_url.encode()).hexdigest()[:8], the first 32 bits
\* of the digest, for the URLs above
Md5Prefix(img_url) ==
    CASE img_url = "scan_1.jpg" -> "d668ba00"
      [] img_url = "scan_58262.jpg" -> "d621693b"
      [] img_url = "scan_109141.jpg" -> "d621693b"

\* the Content-Type of an image response
ContentTypes == {"image/png", "image/gif", "image/jpeg"}

\* lines 348-353
Ext(content_type) ==
    IF content_type = "image/png" THEN "png"
    ELSE IF content_type = "image/gif" THEN "gif"
    ELSE "jpg"

\* line 355: page_{page_index+1:03d}_{img_hash}.{ext}
FileName(page_index, img_url, content_type) ==
    [page |-> page_index + 1, hash |-> Md5Prefix(img_url), ext |-> Ext(content_type)]

NotWritten == [page |-> 0, hash |-> "", ext |-> ""]

\* the accepted images of a scan page, and for each of two runs whether the
\* download of the image succeeds
PageImages ==
    [url : ImageUrls, content_type : ContentTypes, first_run : BOOLEAN, rerun : BOOLEAN]

ScanPageArgs ==
    {[page_index |-> i, imgs |-> <<a, b>>] :
        i \in 0..(ScanMaxPages - 1), a \in PageImages, b \in PageImages}

\* lines 339-358: the file each image of the page is written to, in a run
FilesWritten(page_index, imgs, rerun) ==
    [i \in 1..Len(imgs) |->
        IF (IF rerun THEN imgs[i].rerun ELSE imgs[i].first_run)
        THEN FileName(page_index, imgs[i].url, imgs[i].content_type)
        ELSE NotWritten]

\* process_scan_page on the same page in two runs
ScanPageFiles ==
    /\ ev.fn = "scan_page"
    /\ ~ev.returned
    /\ ev' = [ev EXCEPT
                !.out = [first_run |-> FilesWritten(ev.arg.page_index, ev.arg.imgs, FALSE),
                         rerun |-> FilesWritten(ev.arg.page_index, ev.arg.imgs, TRUE)],
                !.returned = TRUE]
    /\ UNCHANGED <<reqVars, job, disk, mn, site, sq>>

\* A <frame> or <iframe> of a scan page: whether it has a src, whether the
\* fetch of its document succeeds, the <img> elements of that document (each
\* with or without a src, its download succeeding or not) and the number of
\* frames that document has itself.
FrameImg(has_src, fetched) == [has_src |-> has_src, fetched |-> fetched]

Frames ==
    [has_src : BOOLEAN, fetched : BOOLEAN,
     imgs : {<<>>, <<FrameImg(TRUE, TRUE)>>, <<FrameImg(TRUE, FALSE)>>,
             <<FrameImg(FALSE, TRUE), FrameImg(TRUE, TRUE)>>},
     nested : {0, 1}]

\* a fetched scan page: its <img> elements and its frames
FramePages ==
    {[imgs |-> b, frames |-> fs] :
        b \in ScanBodies,
        fs \in {<<>>} \cup {<<f>> : f \in Frames}
                 \cup {<<f, g>> : f \in {x \in Frames : x.nested = 0}, g \in Frames}}

\* what a scan page's processing did: the direct images written, the frames
\* whose document was requested, the frames inside a frame whose document was
\* requested, and the images written from frame documents
PageOutcome(direct, frames, nested, frame_imgs) ==
    [direct |-> direct, frames |-> frames, nested |-> nested, frame_imgs |-> frame_imgs]

\* process_scan_page of gpu_optimised.py (lines 310-362) on a fetched page: the
\* <img> elements of the page, and nothing else
ScanPageParallel ==
    /\ ev.fn = "scan_frames_parallel"
    /\ ~ev.returned
    /\ ev' = [ev EXCEPT
                !.out = PageOutcome(Downloaded(ev.arg.imgs), {}, {}, 0),
                !.returned = TRUE]
    /\ UNCHANGED <<reqVars, job, disk, mn, site, sq>>

\* final_scrapping.py lines 247-255: the sizes are tested only when both
\* attributes are there; a value that is not a number raises ValueError, which
\* is passed over
IsLargeImage(img) ==
    IF img.width.kind = "absent" \/ img.height.kind = "absent" THEN TRUE
    ELSE IF img.width.kind # "int" \/ img.height.kind # "int" THEN TRUE
    ELSE ~(img.width.n < MIN_IMAGE_SIDE \/ img.height.n < MIN_IMAGE_SIDE)

\* final_scrapping.py lines 237-258: the images of the page that pass the filter
SequentialCandidates(imgs) ==
    {i \in 1..Len(imgs) : imgs[i].has_src /\ ~imgs[i].decorative /\ IsLargeImage(imgs[i])}

\* final_scrapping.py lines 260-282: page_downloaded, the images downloaded
PageDownloaded(imgs) ==
    Cardinality({i \in SequentialCandidates(imgs) : imgs[i].fetched})

\* final_scrapping.py lines 287-291: the frames whose document is requested
FramesRequested(frames) == {j \in 1..Len(frames) : frames[j].has_src}

\* final_scrapping.py lines 293-305: the images written from the frames' documents
FrameImagesWritten(frames) ==
    {<<j, k>> \in (1..Len(frames)) \X (1..2) :
        /\ j \in FramesRequested(frames)
        /\ frames[j].fetched
        /\ k <= Len(frames[j].imgs)
        /\ frames[j].imgs[k].has_src
        /\ frames[j].imgs[k].fetched}

\* the loop body of download_scan_images of final_scrapping.py (lines 231-306)
\* on a fetched page
ScanPageSequential ==
    /\ ev.fn = "scan_frames_sequential"
    /\ ~ev.returned
    /\ LET page_downloaded == PageDownloaded(ev.arg.imgs)
       IN  ev' = [ev EXCEPT
                !.out = IF page_downloaded = 0
                        THEN PageOutcome(0, FramesRequested(ev.arg.frames), {},
                                         Cardinality(FrameImagesWritten(ev.arg.frames)))
                        ELSE PageOutcome(page_downloaded, {}, {}, 0),
                !.returned = TRUE]
    /\ UNCHANGED <<reqVars, job, disk, mn, site, sq>>

NextFn ==
    \/ FilterImage
    \/ ExtractContent
    \/ Paginated
    \/ ScanPageFiles
    \/ ScanPageParallel
    \/ ScanPageSequential

InitFn ==
    /\ rm = InitManager
    /\ wk = [w \in Workers |-> IdleWorker]
    /\ obs = InitObs({}, FALSE)
    /\ job = IdleJob
    /\ disk = NoDisk
    /\ mn = OffMain
    /\ site = FullSite
    /\ sq = NoScript
    /\ ev \in {Call("filter", i) : i \in Images}
             \cup {Call("extract", b) : b \in PageBodies}
             \cup {Call("paginate", a) : a \in PaginationArgs}
             \cup {Call("scan_page", a) : a \in ScanPageArgs}
             \cup {Call("scan_frames_parallel", a) : a \in FramePages}
             \cup {Call("scan_frames_sequential", a) : a \in FramePages}

SpecFn == InitFn /\ [][NextFn]_vars

-----------------------------------------------------------------------------
(* Properties of the page-level functions.                                 *)

\* the attribute is present and is an integer, with or without 'px'
IsInt(a) == a.kind = "int"

\* C12: an <img> with a source is accepted unless its source holds a
\* denylisted substring, or width and height are both present, both parse to
\* integers and at least one is below 300; so 200 x 200 is rejected, 400 x 400
\* is accepted and an image with no size attributes, or with sizes that do not
\* parse, is accepted.
ImageFilter ==
    (ev.fn = "filter" /\ ev.returned /\ ev.arg.has_src) =>
        (ev.out <=>
            ~ \/ ev.arg.decorative
              \/ /\ IsInt(ev.arg.width) /\ IsInt(ev.arg.height)
                 /\ \/ ev.arg.width.n < MIN_IMAGE_SIDE
                    \/ ev.arg.height.n < MIN_IMAGE_SIDE)

-----------------------------------------------------------------------------
(* Properties of main.                                                     *)

\* the month record main has built, from the scan check to the end of the write
InMonth == mn.pc \in {"scan_check", "scan_job", "update", "dump"}

\* the record of month m in the metadata file
RecOnDisk(m) ==
    LET es == {disk.meta.entries[i] : i \in 1..Len(disk.meta.entries)}
    IN  IF \E e \in es : e.month = m THEN (CHOOSE e \in es : e.month = m).rec
        ELSE NoRec

\* C6: when the month's text file exists as the month is taken up, main
\* fetches no page of the issue (neither job is called) and the record it
\* writes has has_text true and text_source set.
Resumable ==
    mn.had_text_file =>
        /\ ~mn.fetched
        /\ job.kind = "none"
        /\ InMonth => /\ mn.month_metadata.has_text
                      /\ mn.month_metadata.text_source = TextUrl(mn.month)
        /\ mn.pc = "month" => /\ RecOnDisk(mn.month - 1).has_text
                              /\ RecOnDisk(mn.month - 1).text_source
                                     = TextUrl(mn.month - 1)

\* C7: the write of the metadata file is an atomic replace: after an
\* interruption the file holds the complete former document or the complete new
\* one, never a part of one.
AtomicReplace ==
    mn.pc = "crashed" =>
        /\ disk.meta = mn.before \/ disk.meta = FileOf(mn.metadata)
        /\ disk.meta.exists => disk.meta.complete

\* the scan job is started exactly when there is a scan link and the text job
\* did not succeed: there is no text link, or the job ran and left no file
ScanIffNoText ==
    mn.pc \in {"scan_job", "update", "dump"} =>
        (mn.scan_started <=>
            /\ mn.versions[mn.month].scan
            /\ ~mn.versions[mn.month].text \/ ~disk.text[mn.month].exists)

\* the scan job starts when the text job is over
ScanAfterText == mn.scan_started => job.kind # "text"

\* an issue whose text job found no text that is not empty ends with
\* has_text false
NoTextNoFlag ==
    (InMonth /\ mn.text_ran /\ ~mn.usable) => ~mn.month_metadata.has_text

\* C8: for each month the scan job is started if and only if there is a
\* scan_url and the text job did not succeed, it starts after the text job has
\* finished, and an issue with no usable text ends with has_text false.
ScanFallback == ScanIffNoText /\ ScanAfterText /\ NoTextNoFlag

\* main is past the write of the months it has finished: it looks at the next
\* month, fetches for it, or has ended
PastWrite == mn.pc \in {"month", "text_job", "scan_check", "scan_job", "done"}

\* the entries of month m in the metadata file
EntriesOf(m) == {i \in 1..Len(disk.meta.entries) : disk.meta.entries[i].month = m}

\* the record of every month finished in this run is in the file, once, as
\* main built it
FlushedAfterMonth ==
    PastWrite =>
        \A m \in mn.finished :
            /\ disk.meta.exists /\ disk.meta.complete
            /\ Cardinality(EntriesOf(m)) = 1
            /\ RecOnDisk(m) = mn.metadata[m]

\* every month whose record was once in the complete file still has one
StoredRetained ==
    PastWrite => \A m \in mn.stored : disk.meta.complete /\ RecOnDisk(m).has

\* C17: the metadata is flushed after every month: once a month's job has
\* finished and before a fetch for the next month begins the file holds that
\* month's record, which replaces an earlier record of the month, and the
\* records of all other months stored before are still there.
FlushedEveryMonth == FlushedAfterMonth /\ StoredRetained

\* a text job that returned False has left no file
FailedJobNoFile ==
    (job.kind = "text" /\ job.phase = "returned" /\ ~job.ret) =>
        ~disk.text[job.month].exists

\* a text file holds the text of a page that gave content
FileHasContent ==
    \A m \in Months :
        disk.text[m].exists =>
            \E i \in 1..Len(disk.text[m].sections) : disk.text[m].sections[i].len > 0

\* C26: a text job that reports failure creates no file, and the text file of
\* an issue exists only after a run in which a page gave content, so that an
\* issue whose text job found nothing is tried again by the next run.
NoFileWithoutContent == FailedJobNoFile /\ FileHasContent

\* the month records in memory and in the metadata file
RecordsWritten ==
    {mn.metadata[m] : m \in {x \in Months : mn.metadata[x].has}}
        \cup {disk.meta.entries[i].rec : i \in 1..Len(disk.meta.entries)}

WellFormedRecord(r) ==
    /\ ~(r.has_text /\ r.has_scan)
    /\ r.has_text <=> r.text_source # NoUrl
    /\ r.has_scan <=> r.scan_source # NoUrl

\* C25: in every month record written has_text and has_scan are not both
\* true, has_text is true exactly when text_source is set, has_scan exactly
\* when scan_source is set, and has_scan is true only when the text version
\* was not obtained in that run.
RecordsWellFormed ==
    /\ \A r \in RecordsWritten : WellFormedRecord(r)
    /\ mn.pc \in {"update", "dump"} =>
          /\ WellFormedRecord(mn.month_metadata)
          /\ mn.month_metadata.has_scan => ~mn.text_downloaded /\ mn.scan_started

\* the file holds a month with text and a month with scans, the latter after
\* a text job that failed
RecordsWellFormedWitness ==
    /\ mn.pc = "dump"
    /\ mn.text_ran
    /\ mn.month_metadata.has_scan
    /\ \E i \in 1..Len(disk.meta.entries) : disk.meta.entries[i].rec.has_text
    /\ \E i \in 1..Len(disk.meta.entries) : disk.meta.entries[i].rec.has_scan

\* the selectors of the body whose element has more than 100 characters
Passing(body) ==
    {i \in 1..Len(body.sel) : body.sel[i] # NoElem /\ body.sel[i] > MIN_SELECTOR_TEXT}

\* the blocks of the body with more than 500 characters
BigBlocks(body) == {b \in body.blocks : b > MIN_BLOCK_TEXT}

\* the fallback chain as the claim states it
Reference(body) ==
    IF Passing(body) # {}
    THEN body.sel[CHOOSE i \in Passing(body) : \A j \in Passing(body) : i <= j]
    ELSE IF BigBlocks(body) # {}
    THEN CHOOSE b \in BigBlocks(body) : \A c \in BigBlocks(body) : c <= b
    ELSE NoElem

\* C13: the content extracted from a page is the element of the first
\* selector, in list order, with more than 100 characters of visible text; if
\* there is none, the longest block with more than 500 characters; otherwise
\* None. No element with 100 characters or fewer comes from the selectors.
ExtractionChain ==
    (ev.fn = "extract" /\ ev.returned) => ev.out = Reference(ev.arg)

PageSuffixesAscend ==
    (ev.fn = "paginate" /\ ev.returned) =>
        \A k \in 2..Len(ev.out) : ev.out[k] = ev.arg.base \o <<".">> \o Digits(k)

\* two images of the page with different URLs never share a file in a run
UniquePerPage ==
    (ev.fn = "scan_page" /\ ev.returned) =>
        \A i, j \in 1..Len(ev.arg.imgs) :
            (/\ ev.arg.imgs[i].url # ev.arg.imgs[j].url
             /\ ev.out.first_run[i] # NotWritten
             /\ ev.out.first_run[j] # NotWritten)
                => ev.out.first_run[i] # ev.out.first_run[j]

\* an image written in both runs is written to the same file
StableAcrossRuns ==
    (ev.fn = "scan_page" /\ ev.returned) =>
        \A i \in 1..Len(ev.arg.imgs) :
            (ev.out.first_run[i] # NotWritten /\ ev.out.rerun[i] # NotWritten)
                => ev.out.first_run[i] = ev.out.rerun[i]

\* C16: image filenames are unique per page and stable across reruns: two
\* distinct accepted images of a page are never written to the same filename
\* in a run, and a rerun on unchanged page content and image URLs writes each
\* image to the filename it had before.
FileNamesUniqueAndStable == UniquePerPage /\ StableAcrossRuns


-----------------------------------------------------------------------------
(* Termination: one thread calling make_request, or one text or scan job,  *)
(* under the scheduling the program has.                                   *)

\* the statements of make_request that wait for nothing but the processor
ThreadStep(w) ==
    \/ RotateCheck(w)
    \/ RotClose(w)
    \/ RotNew(w)
    \/ RotReset(w)
    \/ Send(w)
    \/ ReturnNone(w)
    \/ IncrLoad(w)
    \/ IncrStore(w)

\* self.session.get(..., timeout=TIMEOUT) returns a response or raises
Response(w) == Resp200(w) \/ RespFail(w)

\* the clock matters to the threads inside make_request only
Clock == obs.threads # {} /\ Tick

NextLive ==
    \/ Clock
    \/ \E w \in Workers : CallStart(w)
    \/ \E w \in Workers : ThreadStep(w)
    \/ \E w \in Workers : Response(w)
    \/ NextJob

\* either a thread that calls make_request, or a job for the first month's issue
InitLive ==
    \/ InitCall
    \/ /\ rm = InitManager
       /\ wk = [w \in Workers |-> IdleWorker]
       /\ obs = InitObs({}, FALSE)
       /\ \E kind \in {"text", "scan"} :
              \E url \in IssueUrls : job = NewJob(kind, url, 1)
       /\ disk = NoDisk
       /\ mn = OffMain
       /\ site = FullSite
       /\ ev = NoCall
       /\ sq = NoScript

\* Time passes, so every time.sleep ends; a thread that can run does run; the
\* timeout of session.get bounds the wait for a response; the pool runs every
\* submitted page, whose worker makes finitely many make_request calls, and
\* as_completed hands over every finished future.  Whether make_request is
\* called again is up to the caller: CallStart has no fairness.
FairLive ==
    /\ WF_vars(Clock)
    /\ \A w \in Workers : WF_vars(ThreadStep(w)) /\ WF_vars(Response(w))
    /\ WF_vars(NextJob)

SpecLive == InitLive /\ [][NextLive]_vars /\ FairLive

\* the HTTP requests the running (or last) call has sent
RequestsSent(w) == Len(wk[w].hist) + (IF wk[w].pc = "await" THEN 1 ELSE 0)

RequestsBounded == \A w \in Workers : RequestsSent(w) <= MAX_RETRIES

CallReturns == \A w \in Workers : (wk[w].pc # "idle") ~> (wk[w].pc = "idle")

JobReturns == (job.phase \in {"paginate", "pool"}) ~> (job.phase = "returned")

\* C19: whatever the server answers (200, 429, another status, a transport
\* error), a make_request call sends at most MAX_RETRIES requests and returns,
\* and so every text or scan job over its page list returns.
Terminates == []RequestsBounded /\ CallReturns /\ JobReturns

\* a call that has returned None after MAX_RETRIES requests, answered by a 429,
\* by another status and by a transport error
TerminatesWitness ==
    \E w \in Workers :
        /\ wk[w].pc = "idle"
        /\ wk[w].result = "fail"
        /\ RequestsSent(w) = MAX_RETRIES
        /\ {wk[w].hist[i].status : i \in 1..Len(wk[w].hist)} = {"429", "500", "error"}


-----------------------------------------------------------------------------
(* Properties of the processing of one scan page.                          *)

\* the images of the page that pass the filter of the script called
DirectCandidates ==
    IF ev.fn = "scan_frames_parallel"
    THEN {i \in 1..Len(ev.arg.imgs) : ImageAccepted(ev.arg.imgs[i])}
    ELSE SequentialCandidates(ev.arg.imgs)

FallbackWhenNoCandidate ==
    DirectCandidates = {} =>
        ev.out.frames = {j \in 1..Len(ev.arg.frames) : ev.arg.frames[j].has_src}

NoFallbackAfterImage == ev.out.direct > 0 => ev.out.frames = {} /\ ev.out.frame_imgs = 0

OneLevelDeep == ev.out.nested = {}

\* C22: when a fetched scan page has no direct image candidate the document of
\* each of its frames is requested and its images are taken; frames inside a
\* frame are never followed, and no frame is requested when the page gave a
\* direct image.
FrameFallbackOneLevel ==
    (ev.fn \in {"scan_frames_parallel", "scan_frames_sequential"} /\ ev.returned) =>
        FallbackWhenNoCandidate /\ NoFallbackAfterImage /\ OneLevelDeep


-----------------------------------------------------------------------------
(* Properties of the worker pool.                                          *)

InJob == mn.pc \in {"text_job", "scan_job"}

\* the page workers that have been started and have not finished
Unfinished == {p \in Pages : job.status[p] = "running"}

PoolBounded == Cardinality(Unfinished) <= MAX_CONCURRENT_REQUESTS

\* a job returns only when each of its pages has run and been collected
WorkersDoneAtReturn ==
    job.phase = "returned" => \A p \in Pages : job.status[p] = "collected"

\* main is in at most one job, that of the month it is at, and outside a job
\* no page worker exists
OneJobAtATime ==
    /\ ~InJob => Pages = {}
    /\ InJob => /\ job.month = mn.month
                /\ job.kind = IF mn.pc = "text_job" THEN "text" ELSE "scan"

\* C23: at most MAX_CONCURRENT_REQUESTS page workers of a job run at the same
\* time, every worker of a job has finished when the job returns, and no
\* worker of another job (the scan fallback, the next month) runs meanwhile.
PoolBoundedJobsSequential == PoolBounded /\ WorkersDoneAtReturn /\ OneJobAtATime

\* the pool is full while a page of the job still waits for a thread
PoolBoundedWitness ==
    /\ mn.pc = "text_job"
    /\ Cardinality(Unfinished) = MAX_CONCURRENT_REQUESTS
    /\ \E p \in Pages : job.status[p] = "queued"


-----------------------------------------------------------------------------
(* The sequential script, final_scrapping.py: make_request (lines 25-48)   *)
(* and the global request_counter, over the calls of one process.          *)

DELAY_AFTER_REQUESTS == 3
DELAY_SECONDS == 10

\* the calls of make_request followed
MaxSeqRequests == 7

\* requests.get gives a 200, another status, or raises
SeqOutcomes == {"200", "404", "error"}

Pause(seconds) == [kind |-> "pause", seconds |-> seconds]

Request(n, outcome) == [kind |-> "request", n |-> n, outcome |-> outcome]

\* a script that counts the request after the test, so that it pauses after
\* every DELAY_AFTER_REQUESTS-th request
MakeRequestCountAfter ==
    /\ sq.pc = "idle"
    /\ sq.request_counter < MaxSeqRequests
    /\ sq' = [sq EXCEPT
                 !.request_counter = @ + 1,
                 !.pc = IF sq.request_counter > 0
                           /\ sq.request_counter % DELAY_AFTER_REQUESTS = 0
                        THEN "sleep" ELSE "get"]
    /\ UNCHANGED <<reqVars, job, disk, mn, site, ev>>

\* lines 27-32: request_counter += 1, and the test of the pause
MakeRequestEnter ==
    /\ sq.pc = "idle"
    /\ sq.request_counter < MaxSeqRequests
    /\ sq' = [sq EXCEPT
                 !.request_counter = @ + 1,
                 !.pc = IF (sq.request_counter + 1) % DELAY_AFTER_REQUESTS = 0
                        THEN "sleep" ELSE "get"]
    /\ UNCHANGED <<reqVars, job, disk, mn, site, ev>>

\* lines 33-34: time.sleep(DELAY_SECONDS)
MakeRequestSleep ==
    /\ sq.pc = "sleep"
    /\ sq' = [sq EXCEPT !.pc = "get", !.log = Append(@, Pause(DELAY_SECONDS))]
    /\ UNCHANGED <<reqVars, job, disk, mn, site, ev>>

\* lines 40-48: requests.get, and the return of the response or of None
MakeRequestGet ==
    /\ sq.pc = "get"
    /\ \E outcome \in SeqOutcomes :
          sq' = [sq EXCEPT !.pc = "idle",
                           !.log = Append(@, Request(sq.request_counter, outcome))]
    /\ UNCHANGED <<reqVars, job, disk, mn, site, ev>>

NextSeq ==
    \/ MakeRequestEnter
    \/ MakeRequestSleep
    \/ MakeRequestGet

\* the script started: request_counter = 0 (line 21)
InitSeq ==
    /\ rm = InitManager
    /\ wk = [w \in Workers |-> IdleWorker]
    /\ obs = InitObs({}, FALSE)
    /\ job = IdleJob
    /\ disk = NoDisk
    /\ mn = OffMain
    /\ site = FullSite
    /\ ev = NoCall
    /\ sq = [NoScript EXCEPT !.pc = "idle"]

SpecSeq == InitSeq /\ [][NextSeq]_vars

-----------------------------------------------------------------------------
(* Properties of the sequential script's make_request.                     *)

IsRequest(i) == sq.log[i].kind = "request"

\* the requests are numbered 1, 2, 3, ... in the order they were sent
CountsAll ==
    \A i \in 1..Len(sq.log) :
        IsRequest(i) =>
            sq.log[i].n = Cardinality({j \in 1..i : IsRequest(j)})

\* a pause of DELAY_SECONDS right before each request whose number is a
\* multiple of DELAY_AFTER_REQUESTS, and nowhere else
PauseBeforeNth ==
    /\ \A i \in 1..Len(sq.log) :
          IsRequest(i) =>
              ((sq.log[i].n % DELAY_AFTER_REQUESTS = 0)
                  <=> (i > 1 /\ sq.log[i - 1] = Pause(DELAY_SECONDS)))
    /\ \A i \in 1..Len(sq.log) :
          ~IsRequest(i) => sq.log[i] = Pause(DELAY_SECONDS)

\* k requests sent one after the other with no pause between them
Burst(k) ==
    \E i \in 1..Len(sq.log) :
        /\ i + k - 1 <= Len(sq.log)
        /\ \A j \in i..(i + k - 1) : IsRequest(j)

\* C27, as stated: a pause of DELAY_SECONDS before every
\* DELAY_AFTER_REQUESTS-th request, all requests counted, and never
\* DELAY_AFTER_REQUESTS requests in a row without a pause between them.
PauseEveryNthStated ==
    CountsAll /\ PauseBeforeNth /\ ~Burst(DELAY_AFTER_REQUESTS)

\* C27, amended: a pause of DELAY_SECONDS before every DELAY_AFTER_REQUESTS-th
\* request, all requests counted, and never more than DELAY_AFTER_REQUESTS
\* requests in a row without a pause between them.
PauseEveryNth ==
    CountsAll /\ PauseBeforeNth /\ ~Burst(DELAY_AFTER_REQUESTS + 1)

\* two pauses taken, failed and successful requests among those counted, and
\* DELAY_AFTER_REQUESTS requests in a row between the pauses
PauseEveryNthWitness ==
    /\ sq.pc = "idle"
    /\ sq.request_counter = 2 * DELAY_AFTER_REQUESTS
    /\ Cardinality({i \in 1..Len(sq.log) : ~IsRequest(i)}) = 2
    /\ Burst(DELAY_AFTER_REQUESTS)
    /\ {sq.log[i].outcome : i \in {j \in 1..Len(sq.log) : IsRequest(j)}} = SeqOutcomes

====
